---------------------------- MODULE Spec2Model ----------------------------
(***************************************************************************)
(* Model of amortizer/generator.py: class Amortizer.                       *)
(*                                                                         *)
(* Numbers.  Python floats are modelled as exact rationals <<n, d>> in     *)
(* lowest terms with d > 0; an argument keeps its Python type next to its  *)
(* value, so that float(x) is a conversion and not the identity.  The      *)
(* 2-decimal rounding of DataFrame.round / round() is round-half-to-even   *)
(* on the exact value.  A double differs from the exact value by a         *)
(* relative error of about 1e-16, which can change a 2-decimal rounding    *)
(* only when the exact value lies on a tie (x.xx5).                        *)
(* The numeric arguments below are chosen so that, for every period up to  *)
(* MaxPeriod + 1, the schedules and summaries of the exact arithmetic are  *)
(* those of the float64 arithmetic of the source.                          *)
(***************************************************************************)
EXTENDS Integers, Sequences, FiniteSets, TLC

VARIABLES
    amount, period, interest_rate,  \* the fields of the Amortizer object
    constructed,                    \* __init__ has returned normally
    args,                           \* the arguments of the last __init__ call
    result,                         \* the last call and what it gave back
    returned,                       \* what each generator gave back, its last two calls
    files,                          \* the files written by to_csv, by full path
    stdout                          \* the set of lines printed

vars == <<amount, period, interest_rate, constructed, args, result, returned, files, stdout>>

(***************************************************************************)
(* Bounds of the input domain.                                             *)
(***************************************************************************)
MaxPeriod == 3

(***************************************************************************)
(* Rational arithmetic (the float operators of the source).                *)
(***************************************************************************)
Abs(n) == IF n < 0 THEN -n ELSE n

RECURSIVE GCD(_, _)
GCD(a, b) == IF b = 0 THEN a ELSE GCD(b, a % b)

Norm(n, d) ==
    LET s == IF d < 0 THEN -1 ELSE 1
        g == GCD(Abs(n), Abs(d))
    IN  <<(s * n) \div g, (s * d) \div g>>

Rat(n) == <<n, 1>>

IsZero(x) == x[1] = 0

IsNegative(x) == x[1] < 0

RNeg(x) == <<-x[1], x[2]>>

RAdd(x, y) ==
    LET g == GCD(x[2], y[2])
        l == (x[2] \div g) * y[2]
    IN  Norm(x[1] * (l \div x[2]) + y[1] * (l \div y[2]), l)

RSub(x, y) == RAdd(x, RNeg(y))

RMul(x, y) ==
    LET a == Norm(x[1], y[2])
        b == Norm(y[1], x[2])
    IN  <<a[1] * b[1], a[2] * b[2]>>

\* x / y for y # 0; Python raises ZeroDivisionError for y = 0 (see callers)
RDiv(x, y) == RMul(x, Norm(y[2], y[1]))

RECURSIVE RPow(_, _)
RPow(x, n) == IF n = 0 THEN Rat(1) ELSE RMul(x, RPow(x, n - 1))

RLess(x, y) == RSub(x, y)[1] < 0

RLeq(x, y) == RSub(x, y)[1] <= 0

\* the number of hundredths nearest to x, ties to the even one
Hundredths(x) ==
    LET w  == x[1] \div x[2]
        r  == x[1] % x[2]
        h  == (100 * r) \div x[2]
        r2 == (100 * r) % x[2]
        c  == 100 * w + h
    IN  IF 2 * r2 > x[2] THEN c + 1
        ELSE IF 2 * r2 < x[2] THEN c
        ELSE IF c % 2 = 0 THEN c ELSE c + 1

\* round(x, 2)
Round2(x) == Norm(Hundredths(x), 100)


(***************************************************************************)
(* Python values: the arguments of the constructor and the stored fields.  *)
(***************************************************************************)
Num(t, n, d) == [type |-> t, q |-> Norm(n, d), s |-> ""]

Str(s) == [type |-> "str", q |-> Rat(0), s |-> s]

Unset == [type |-> "unset", q |-> Rat(0), s |-> ""]

\* float(x) of a numeric x
float(x) == [type |-> "float", q |-> x.q, s |-> ""]

AmountArgs ==
    {Num("int", n, 1) : n \in {-50, 0, 1, 100}}
        \cup {Num("float", 425, 2), Str("abc")}

PeriodArgs == {Num("int", n, 1) : n \in -1 .. MaxPeriod} \cup {Str("12")}

RateArgs ==
    {Num("int", n, 1) : n \in {-1, 0, 60, 100, 150}}
        \cup {Num("float", 201, 2), Str("9%")}

Methods == {"straight", "annuity", "linear"}

Paths == {"/tmp/"}

(***************************************************************************)
(* The DataFrame: a sequence of rows, each a function of the column name.  *)
(***************************************************************************)
Columns ==
    <<"Month:Period", "Amortization", "Interest expense", "Payment", "Remaining debt">>

new_row(m, a, ie, p, rd) ==
    [c \in {Columns[k] : k \in 1 .. 5} |->
        CASE c = "Month:Period" -> m
          [] c = "Amortization" -> a
          [] c = "Interest expense" -> ie
          [] c = "Payment" -> p
          [] c = "Remaining debt" -> rd]

\* df.round(2)
RoundDF(df) == [k \in 1 .. Len(df) |-> [c \in DOMAIN df[k] |-> Round2(df[k][c])]]

\* df['Remaining debt'].map(lambda x: 0 if x<0 else x)
ClampDF(df) ==
    [k \in 1 .. Len(df) |->
        [df[k] EXCEPT !["Remaining debt"] = IF IsNegative(@) THEN Rat(0) ELSE @]]

RECURSIVE ColumnSum(_, _)
ColumnSum(df, c) ==
    IF df = <<>> THEN Rat(0) ELSE RAdd(df[1][c], ColumnSum(Tail(df), c))

\* df[c].mean() of a frame with at least one row
ColumnMean(df, c) == RDiv(ColumnSum(df, c), Rat(Len(df)))

(***************************************************************************)
(* What a call gives back: a value or a raised exception.                  *)
(***************************************************************************)
NoSummary ==
    [total_cost |-> Rat(0), average_interest_exp |-> Rat(0),
     average_monthly_pmt |-> Rat(0), total_interest_exp |-> Rat(0)]

Outcome(kind, exc, df, dict) ==
    [kind |-> kind, exc |-> exc, df |-> df, summary |-> dict]

ReturnDF(df) == Outcome("DataFrame", "", df, NoSummary)

Raise(exc) == Outcome("raise", exc, <<>>, NoSummary)

ReturnNone == Outcome("None", "", <<>>, NoSummary)

(***************************************************************************)
(* Amortizer.__init__                                                      *)
(***************************************************************************)
\* __init__ with the period test written `period < 0`
InitRaises_StrictPeriod(a, p, r) ==
    IF \E arg \in {a, p, r} : arg.type = "str" THEN "TypeError"
    ELSE IF RLess(p.q, Rat(0)) THEN "ValueError"
    ELSE IF RLess(Rat(100), r.q) \/ RLess(r.q, Rat(0)) THEN "ValueError"
    ELSE ""

\* the exception __init__ raises on these arguments, "" when it raises none
InitRaises(a, p, r) ==
    IF \E arg \in {a, p, r} : arg.type = "str" THEN "TypeError"
    ELSE IF RLeq(p.q, Rat(0)) THEN "ValueError"
    ELSE IF RLess(Rat(100), r.q) \/ RLess(r.q, Rat(0)) THEN "ValueError"
    ELSE ""

(***************************************************************************)
(* Amortizer.straight_amortization                                         *)
(***************************************************************************)
\* the loop with the balance growing: remaining_debt = prev_rem_debt + amortization
RECURSIVE straight_loop_GrowingDebt(_, _, _, _, _, _)
straight_loop_GrowingDebt(i, n, prev_rem_debt, amortization, interest_rate_period, df) ==
    IF i >= n THEN df
    ELSE
        LET interest_exp   == RMul(prev_rem_debt, interest_rate_period)
            remaining_debt == RAdd(prev_rem_debt, amortization)
            payment_amount == RAdd(interest_exp, amortization)
            row == new_row(Rat(i + 1), amortization, interest_exp,
                           payment_amount, remaining_debt)
        IN  straight_loop_GrowingDebt(i + 1, n, remaining_debt, amortization,
                                      interest_rate_period,
                                      ClampDF(RoundDF(Append(df, row))))

RECURSIVE straight_loop(_, _, _, _, _, _)
straight_loop(i, n, prev_rem_debt, amortization, interest_rate_period, df) ==
    IF i >= n THEN df
    ELSE
        LET interest_exp   == RMul(prev_rem_debt, interest_rate_period)
            remaining_debt == RSub(prev_rem_debt, amortization)
            payment_amount == RAdd(interest_exp, amortization)
            row == new_row(Rat(i + 1), amortization, interest_exp,
                           payment_amount, remaining_debt)
        IN  straight_loop(i + 1, n, remaining_debt, amortization,
                          interest_rate_period,
                          ClampDF(RoundDF(Append(df, row))))

straight_amortization(a, p, r) ==
    LET amortization         == RDiv(a.q, p.q)
        interest_rate_period == RDiv(r.q, Rat(1200))
    IN  ReturnDF(straight_loop(0, p.q[1], a.q, amortization,
                               interest_rate_period, <<>>))

(***************************************************************************)
(* Amortizer.annuity_amortization                                          *)
(***************************************************************************)
\* the loop with amortization = annuity_payment + interest_exp
RECURSIVE annuity_loop_AddedInterest(_, _, _, _, _, _)
annuity_loop_AddedInterest(i, n, prev_rem_debt, annuity_payment, interest_rate_period, df) ==
    IF i >= n THEN df
    ELSE
        LET interest_exp   == RMul(prev_rem_debt, interest_rate_period)
            amortization   == RAdd(annuity_payment, interest_exp)
            remaining_debt == RSub(prev_rem_debt, amortization)
            row == new_row(Rat(i + 1), amortization, interest_exp,
                           annuity_payment, remaining_debt)
        IN  annuity_loop_AddedInterest(i + 1, n, remaining_debt, annuity_payment,
                                       interest_rate_period,
                                       ClampDF(RoundDF(Append(df, row))))

RECURSIVE annuity_loop(_, _, _, _, _, _)
annuity_loop(i, n, prev_rem_debt, annuity_payment, interest_rate_period, df) ==
    IF i >= n THEN df
    ELSE
        LET interest_exp   == RMul(prev_rem_debt, interest_rate_period)
            amortization   == RSub(annuity_payment, interest_exp)
            remaining_debt == RSub(prev_rem_debt, amortization)
            row == new_row(Rat(i + 1), amortization, interest_exp,
                           annuity_payment, remaining_debt)
        IN  annuity_loop(i + 1, n, remaining_debt, annuity_payment,
                         interest_rate_period,
                         ClampDF(RoundDF(Append(df, row))))

\* 1 - 1 / (1 + interest_rate_period)**self.period
annuity_divisor(p, r) ==
    RSub(Rat(1), RDiv(Rat(1), RPow(RAdd(Rat(1), RDiv(r.q, Rat(1200))), p.q[1])))

annuity_amortization(a, p, r) ==
    LET interest_rate_period == RDiv(r.q, Rat(1200))
        divisor              == annuity_divisor(p, r)
        annuity_payment      == RDiv(RMul(a.q, interest_rate_period), divisor)
    IN  IF IsZero(divisor) THEN Raise("ZeroDivisionError")
        ELSE ReturnDF(annuity_loop(0, p.q[1], a.q, annuity_payment,
                                   interest_rate_period, <<>>))

(***************************************************************************)
(* Amortizer.get_summary, to_html, to_json                                 *)
(***************************************************************************)
\* the dictionary get_summary builds from a frame
summary(df) ==
    [total_cost           |-> Round2(ColumnSum(df, "Payment")),
     average_interest_exp |-> Round2(ColumnMean(df, "Interest expense")),
     average_monthly_pmt  |-> Round2(ColumnMean(df, "Payment")),
     total_interest_exp   |-> Round2(ColumnSum(df, "Interest expense"))]

get_summary(a, p, r, method) ==
    IF method = "straight" THEN
        Outcome("dict", "", <<>>, summary(straight_amortization(a, p, r).df))
    ELSE IF method = "annuity" THEN
        LET out == annuity_amortization(a, p, r)
        IN  IF out.kind = "raise" THEN out
            ELSE Outcome("dict", "", <<>>, summary(out.df))
    ELSE ReturnNone

\* df.to_html() / df.to_json(): the markup of the frame, kept as the frame
\* it renders tagged with its format
render(format, a, p, r, method) ==
    IF method = "straight" THEN
        Outcome(format, "", straight_amortization(a, p, r).df, NoSummary)
    ELSE IF method = "annuity" THEN
        LET out == annuity_amortization(a, p, r)
        IN  IF out.kind = "raise" THEN out
            ELSE Outcome(format, "", out.df, NoSummary)
    ELSE ReturnNone

to_html(a, p, r, method) == render("html", a, p, r, method)

to_json(a, p, r, method) == render("json", a, p, r, method)


(***************************************************************************)
(* The state machine: one object, constructed once, then called.           *)
(***************************************************************************)
Generators == {"straight", "annuity"}

\* the history of a generator's results, cut to the last two
LastTwo(h, out) == IF Len(h) < 2 THEN Append(h, out) ELSE <<h[2], out>>

Call(op, method, out) == [op |-> op, method |-> method, out |-> out]

Init ==
    /\ amount = Unset
    /\ period = Unset
    /\ interest_rate = Unset
    /\ constructed = FALSE
    /\ args = <<>>
    /\ result = Call("", "", ReturnNone)
    /\ returned = [g \in Generators |-> <<>>]
    /\ files = <<>>
    /\ stdout = {}

\* Amortizer(a, p, r)
New(a, p, r) ==
    /\ ~constructed
    /\ args' = <<a, p, r>>
    /\ IF InitRaises(a, p, r) # ""
       THEN /\ result' = Call("__init__", "", Raise(InitRaises(a, p, r)))
            /\ UNCHANGED <<amount, period, interest_rate, constructed>>
       ELSE /\ amount' = float(a)
            /\ period' = p
            /\ interest_rate' = float(r)
            /\ constructed' = TRUE
            /\ result' = Call("__init__", "", ReturnNone)
    /\ UNCHANGED <<returned, files, stdout>>

\* straight_amortization keeping its running balance in self.amount
Straight_BalanceInField ==
    /\ constructed
    /\ LET out == straight_amortization(amount, period, interest_rate)
           last == out.df[Len(out.df)]
       IN  /\ result' = Call("straight_amortization", "straight", out)
           /\ returned' = [returned EXCEPT !["straight"] = LastTwo(@, out)]
           /\ amount' = [amount EXCEPT !.q = last["Remaining debt"]]
    /\ UNCHANGED <<period, interest_rate, constructed, args, files, stdout>>

Straight ==
    /\ constructed
    /\ LET out == straight_amortization(amount, period, interest_rate)
       IN  /\ result' = Call("straight_amortization", "straight", out)
           /\ returned' = [returned EXCEPT !["straight"] = LastTwo(@, out)]
    /\ UNCHANGED <<amount, period, interest_rate, constructed, args, files, stdout>>

Annuity ==
    /\ constructed
    /\ LET out == annuity_amortization(amount, period, interest_rate)
       IN  /\ result' = Call("annuity_amortization", "annuity", out)
           /\ returned' = [returned EXCEPT !["annuity"] = LastTwo(@, out)]
    /\ UNCHANGED <<amount, period, interest_rate, constructed, args, files, stdout>>

GetSummary(method) ==
    /\ constructed
    /\ result' = Call("get_summary", method,
                      get_summary(amount, period, interest_rate, method))
    /\ UNCHANGED <<amount, period, interest_rate, constructed, args, returned,
                   files, stdout>>

ToHtml(method) ==
    /\ constructed
    /\ result' = Call("to_html", method,
                      to_html(amount, period, interest_rate, method))
    /\ UNCHANGED <<amount, period, interest_rate, constructed, args, returned,
                   files, stdout>>

ToJson(method) ==
    /\ constructed
    /\ result' = Call("to_json", method,
                      to_json(amount, period, interest_rate, method))
    /\ UNCHANGED <<amount, period, interest_rate, constructed, args, returned,
                   files, stdout>>

\* df.to_csv(full_path, index = False, header=True)
csv(df) == [header |-> Columns, rows |-> df]

ToCsv(path, method) ==
    /\ constructed
    /\ LET full_path == path \o method \o "_amortization.csv"
           line == "Data was recorded to " \o method
                       \o "_amortization.csv at the following location: " \o path
           out == IF method = "straight"
                  THEN straight_amortization(amount, period, interest_rate)
                  ELSE IF method = "annuity"
                  THEN annuity_amortization(amount, period, interest_rate)
                  ELSE ReturnNone
       IN  IF out.kind = "DataFrame"
           THEN /\ files' = (full_path :> csv(out.df)) @@ files
                /\ stdout' = stdout \cup {line}
                /\ result' = Call("to_csv", method, ReturnNone)
           ELSE /\ result' = Call("to_csv", method, out)
                /\ UNCHANGED <<files, stdout>>
    /\ UNCHANGED <<amount, period, interest_rate, constructed, args, returned>>

Next ==
    \/ \E a \in AmountArgs, p \in PeriodArgs, r \in RateArgs : New(a, p, r)
    \/ Straight
    \/ Annuity
    \/ \E method \in Methods : GetSummary(method)
    \/ \E method \in Methods : ToHtml(method)
    \/ \E method \in Methods : ToJson(method)
    \/ \E path \in Paths, method \in Methods : ToCsv(path, method)

Spec == Init /\ [][Next]_vars


(***************************************************************************)
(* Properties.                                                             *)
(***************************************************************************)
GeneratorReturned ==
    /\ constructed
    /\ result.op \in {"straight_amortization", "annuity_amortization"}

Schedule == result.out.df

RAbs(x) == <<Abs(x[1]), x[2]>>

Cent == Norm(1, 100)

\* 0.01 * period
Tolerance == Norm(period.q[1], 100)

\* C1: for every valid loan and both generators the returned schedule has
\* exactly `period` records and the 'Month:Period' of the k-th record is k
C1_PeriodIndices ==
    GeneratorReturned =>
        /\ result.out.kind = "DataFrame"
        /\ Len(Schedule) = period.q[1]
        /\ \A k \in 1 .. Len(Schedule) : Schedule[k]["Month:Period"] = Rat(k)

\* C2: __init__ raises TypeError when any argument is a string (also when
\* another one is out of range), ValueError when period <= 0, ValueError when
\* interest_rate is outside [0, 100]; otherwise it stores float(amount),
\* period as given and float(interest_rate).  No object with period <= 0 or
\* interest_rate outside [0, 100] exists.
C2_Construction ==
    /\ args # <<>> =>
        LET a == args[1]
            p == args[2]
            r == args[3]
            textual   == \E i \in 1 .. 3 : args[i].type = "str"
            badPeriod == p.q[1] <= 0
            badRate   == r.q[1] < 0 \/ r.q[1] > 100 * r.q[2]
        IN  /\ textual =>
                ~constructed /\ result = Call("__init__", "", Raise("TypeError"))
            /\ ~textual /\ (badPeriod \/ badRate) =>
                ~constructed /\ result = Call("__init__", "", Raise("ValueError"))
            /\ ~textual /\ ~badPeriod /\ ~badRate =>
                /\ constructed
                /\ amount = [type |-> "float", q |-> a.q, s |-> ""]
                /\ period = p
                /\ interest_rate = [type |-> "float", q |-> r.q, s |-> ""]
    /\ constructed =>
        /\ period.q[1] > 0
        /\ interest_rate.q[1] >= 0
        /\ interest_rate.q[1] <= 100 * interest_rate.q[2]

\* C2 witness: a string amount together with a period out of range has
\* raised TypeError
C2_Witness ==
    /\ args # <<>>
    /\ args[1].type = "str"
    /\ args[2].type = "int"
    /\ args[2].q[1] <= 0
    /\ result = Call("__init__", "", Raise("TypeError"))

\* C3: get_summary with a method that is neither 'straight' nor 'annuity'
\* raises UnknownMethod and never returns None
C3_UnknownMethodRaises ==
    (constructed /\ result.op = "get_summary" /\ result.method \notin Generators) =>
        /\ result.out.kind = "raise"
        /\ result.out.exc = "UnknownMethod"

\* C4: the annuity schedule of a loan with interest_rate = 0 is generated
\* without a division by zero: every period has payment = amount / period,
\* amortization = payment and interest_expense = 0
C4_ZeroRateAnnuity ==
    (constructed /\ result.op = "annuity_amortization" /\ IsZero(interest_rate.q)) =>
        /\ result.out.kind = "DataFrame"
        /\ \A k \in 1 .. Len(Schedule) :
            /\ Schedule[k]["Payment"] = Round2(RDiv(amount.q, period.q))
            /\ Schedule[k]["Amortization"] = Schedule[k]["Payment"]
            /\ Schedule[k]["Interest expense"] = Rat(0)

\* 'Remaining debt' never increases, is never negative and ends at 0 within
\* one hundredth
RemainingDebtSettles(df) ==
    /\ \A k \in 1 .. Len(df) - 1 :
        RLeq(df[k + 1]["Remaining debt"], df[k]["Remaining debt"])
    /\ \A k \in 1 .. Len(df) : RLeq(Rat(0), df[k]["Remaining debt"])
    /\ df # <<>>
    /\ RLeq(RAbs(df[Len(df)]["Remaining debt"]), Cent)

\* C5: for every valid loan and both generators the 'Remaining debt' column
\* is non-increasing, never negative, and 0 within rounding in the last record
C5_RemainingDebt ==
    GeneratorReturned =>
        /\ result.out.kind = "DataFrame"
        /\ RemainingDebtSettles(Schedule)

\* the rounded 'Amortization' column sums to amount within 0.01 * period
AmortizationRepays(df) ==
    RLeq(RAbs(RSub(ColumnSum(df, "Amortization"), amount.q)), Tolerance)

\* C6: for every valid loan and both generators the sum of the rounded
\* 'Amortization' column equals amount within 0.01 * period
C6_AmortizationSum ==
    GeneratorReturned =>
        /\ result.out.kind = "DataFrame"
        /\ AmortizationRepays(Schedule)

\* total_cost = total_interest_exp + amount within 0.01 * period
CostIsInterestPlusAmount(d) ==
    RLeq(RAbs(RSub(d.total_cost, RAdd(d.total_interest_exp, amount.q))), Tolerance)

\* C7: for every valid loan and both methods the summary of get_summary has
\* total_cost = total_interest_exp + amount within rounding tolerance
C7_TotalCost ==
    (constructed /\ result.op = "get_summary" /\ result.method \in Generators) =>
        /\ result.out.kind = "dict"
        /\ CostIsInterestPlusAmount(result.out.summary)

StraightReturned ==
    /\ constructed
    /\ result.op = "straight_amortization"
    /\ result.out.kind = "DataFrame"
    /\ period.q[1] >= 2

PaymentGap(row) ==
    RAbs(RSub(row["Payment"], RAdd(row["Amortization"], row["Interest expense"])))

\* C9 as stated: in every record of every returned schedule 'Payment' equals
\* 'Amortization' + 'Interest expense' exactly
C9_PaymentIsExactSum ==
    (GeneratorReturned /\ result.out.kind = "DataFrame") =>
        \A k \in 1 .. Len(Schedule) : IsZero(PaymentGap(Schedule[k]))

\* C9 amended: in every record of every returned schedule 'Payment' differs
\* from 'Amortization' + 'Interest expense' by at most 0.01
C9_PaymentIsSumWithinCent ==
    (GeneratorReturned /\ result.out.kind = "DataFrame") =>
        \A k \in 1 .. Len(Schedule) : RLeq(PaymentGap(Schedule[k]), Cent)

\* C9 witness: a returned annuity schedule with a record whose rounded payment
\* is one hundredth off the sum of its rounded parts
C9_Witness ==
    /\ GeneratorReturned
    /\ result.op = "annuity_amortization"
    /\ result.out.kind = "DataFrame"
    /\ \E k \in 1 .. Len(Schedule) : PaymentGap(Schedule[k]) = Cent

\* C10: no call on a constructed object changes amount, period or
\* interest_rate, and two calls of the same generator give equal results
C10_ReadOnlyObject ==
    [][constructed =>
        /\ constructed'
        /\ amount' = amount
        /\ period' = period
        /\ interest_rate' = interest_rate
        /\ \A g \in Generators :
            \A i, j \in 1 .. Len(returned'[g]) : returned'[g][i] = returned'[g][j]]_vars

\* C10 witness: both generators have been called twice and the exporters and
\* the summary have run in between
C10_Witness ==
    /\ \A g \in Generators : Len(returned[g]) = 2
    /\ result.op = "get_summary"
    /\ DOMAIN files # {}
    /\ amount.q[1] > 0

=============================================================================
